---- MODULE Spec2Model ----
(***************************************************************************)
(* SipHash-2-4 streaming engine (src/src/sip.rs) and the HashFunction /    *)
(* HashContext / Hash traits (src/src/traits.rs, src/src/lib.rs).          *)
(*                                                                         *)
(* A u64 is modelled by its eight bytes, least significant byte first, so  *)
(* that every operation keeps the 64-bit width: bits shifted past byte 8   *)
(* are lost and additions drop the carry out of byte 8.  A byte slice is a *)
(* sequence of numbers in 0..255; Rust index i is TLA+ index i + 1.        *)
(***************************************************************************)
EXTENDS Integers, Sequences, FiniteSets, TLC

(* ------------------------------ bounds -------------------------------- *)

\* most bytes one engine is fed over its life
MaxTotal == 17
\* most update/hash calls on one engine
MaxCalls == 3
\* most bytes one engine is fed when two engines are interleaved
MaxTotalMulti == 9
\* most bytes one engine is fed in the runs with long inputs: above 256, where
\* the low byte of the length has wrapped
MaxLong == 258

\* the engines a run may hold; the interleaved runs use both
Engines == {1, 2}
\* the engine of the runs that use a single engine
Solo == {1}

(* --------------------------- 64-bit words ----------------------------- *)

\* `let x = ...; F(x)`: x is computed before F uses it
Let(x, F(_)) == CHOOSE r \in { F(v) : v \in {x} } : TRUE

Bit(x, k) == (x \div (2^k)) % 2

\* the bitwise operators on 4-bit digits, tabulated once
XorNib ==
  [a \in 0..15 |-> [b \in 0..15 |->
      ((Bit(a, 0) + Bit(b, 0)) % 2) + 2 * ((Bit(a, 1) + Bit(b, 1)) % 2)
    + 4 * ((Bit(a, 2) + Bit(b, 2)) % 2) + 8 * ((Bit(a, 3) + Bit(b, 3)) % 2)]]

OrNib ==
  [a \in 0..15 |-> [b \in 0..15 |->
      (IF Bit(a, 0) + Bit(b, 0) > 0 THEN 1 ELSE 0)
    + (IF Bit(a, 1) + Bit(b, 1) > 0 THEN 2 ELSE 0)
    + (IF Bit(a, 2) + Bit(b, 2) > 0 THEN 4 ELSE 0)
    + (IF Bit(a, 3) + Bit(b, 3) > 0 THEN 8 ELSE 0)]]

XorByte(a, b) == 16 * XorNib[a \div 16][b \div 16] + XorNib[a % 16][b % 16]

OrByte(a, b) == 16 * OrNib[a \div 16][b \div 16] + OrNib[a % 16][b % 16]

\* the u64 whose byte j is f[j]; SubSeq computes the eight bytes once
Bytes(f) == SubSeq(f, 1, 8)

\* x ^ y on u64
Xor(x, y) == Bytes([j \in 1..8 |-> XorByte(x[j], y[j])])

\* x | y on u64
Or(x, y) == Bytes([j \in 1..8 |-> OrByte(x[j], y[j])])

Zero64 == << 0, 0, 0, 0, 0, 0, 0, 0 >>

\* a value below 256 as u64 (`byte as u64`)
FromByte(b) == << b, 0, 0, 0, 0, 0, 0, 0 >>

\* the u64 written as four 16-bit groups, most significant first
U64(h3, h2, h1, h0) ==
  << h0 % 256, h0 \div 256, h1 % 256, h1 \div 256,
     h2 % 256, h2 \div 256, h3 % 256, h3 \div 256 >>

\* byte j of x, zero outside the word
At(x, j) == IF j >= 1 /\ j <= 8 THEN x[j] ELSE 0

ShlByte(x, j, q, r) ==
  ((At(x, j - q) * (2^r)) % 256) + (At(x, j - q - 1) \div (2^(8 - r)))

ShrByte(x, j, q, r) ==
  (At(x, j + q) \div (2^r)) + ((At(x, j + q + 1) * (2^(8 - r))) % 256)

\* x << b on u64, 0 <= b < 64: the bits moved past bit 63 are lost
Shl(x, b) == Bytes([j \in 1..8 |-> ShlByte(x, j, b \div 8, b % 8)])

\* x >> b on u64, 0 <= b < 64
Shr(x, b) == Bytes([j \in 1..8 |-> ShrByte(x, j, b \div 8, b % 8)])

RECURSIVE AddFrom(_, _, _, _)
AddFrom(x, y, j, c) ==
  IF j > 8 THEN << >>
  ELSE LET s == x[j] + y[j] + c
       IN << s % 256 >> \o AddFrom(x, y, j + 1, s \div 256)

\* addition of the eight bytes one by one, no carry from byte to byte
wrapping_add_NoCarry(x, y) == Bytes([j \in 1..8 |-> (x[j] + y[j]) % 256])

\* x.wrapping_add(y) on u64: the carry out of byte 8 is dropped
wrapping_add(x, y) == AddFrom(x, y, 1, 0)

\* rotl!(x, b)
rotl(x, b) == Or(Shl(x, b), Shr(x, 64 - b))

\* compress! with the last rotation of v1 by 16 instead of 17
compress_Rot16(c) ==
  LET v0a == wrapping_add(c.v0, c.v1)
      v1a == Xor(rotl(c.v1, 13), v0a)
      v0b == rotl(v0a, 32)
      v2a == wrapping_add(c.v2, c.v3)
      v3a == Xor(rotl(c.v3, 16), v2a)
      v0c == wrapping_add(v0b, v3a)
      v3b == Xor(rotl(v3a, 21), v0c)
      v2b == wrapping_add(v2a, v1a)
      v1b == Xor(rotl(v1a, 16), v2b)
      v2c == rotl(v2b, 32)
  IN [c EXCEPT !.v0 = v0c, !.v1 = v1b, !.v2 = v2c, !.v3 = v3b]

\* compress!(v0, v1, v2, v3) on the lanes of c
compress(c) ==
  LET v0a == wrapping_add(c.v0, c.v1)
      v1a == Xor(rotl(c.v1, 13), v0a)
      v0b == rotl(v0a, 32)
      v2a == wrapping_add(c.v2, c.v3)
      v3a == Xor(rotl(c.v3, 16), v2a)
      v0c == wrapping_add(v0b, v3a)
      v3b == Xor(rotl(v3a, 21), v0c)
      v2b == wrapping_add(v2a, v1a)
      v1b == Xor(rotl(v1a, 17), v2b)
      v2c == rotl(v2b, 32)
  IN [c EXCEPT !.v0 = v0c, !.v1 = v1b, !.v2 = v2c, !.v3 = v3b]

(* ------------------------- src/src/sip.rs ----------------------------- *)

\* buf[i] of a slice, Rust indexing from 0 (0 where the slice has no byte)
Get(buf, i) == IF i >= 0 /\ i < Len(buf) THEN buf[i + 1] ELSE 0

RECURSIVE u8to64_le_loop(_, _, _, _, _)
u8to64_le_loop(buf, i, len, t, out) ==
  IF t < len
  THEN u8to64_le_loop(buf, i, len, t + 1,
                      Or(out, Shl(FromByte(Get(buf, t + i)), t * 8)))
  ELSE out

\* u8to64_le!(buf, i, len): the bytes buf[i .. i+len] packed little-endian
u8to64_le(buf, i, len) == u8to64_le_loop(buf, i, len, 0, Zero64)

\* every index u8to64_le!(buf, i, len) reads is in the slice, and no shift
\* reaches 64
u8to64_le_ok(buf, i, len) ==
  \A t \in 0..(len - 1) : t + i >= 0 /\ t + i < Len(buf) /\ t * 8 < 64

\* load_u64_le(buf, i): the bytes buf[i .. i+8] as a little-endian u64
load_u64_le(buf, i) ==
  << Get(buf, i), Get(buf, i + 1), Get(buf, i + 2), Get(buf, i + 3),
     Get(buf, i + 4), Get(buf, i + 5), Get(buf, i + 6), Get(buf, i + 7) >>

\* the debug_assert of load_u64_le: the unchecked read stays in the slice
load_u64_le_ok(buf, i) == i >= 0 /\ i + 8 <= Len(buf)

\* one block: v3 ^= m; compress; compress; v0 ^= m
Absorb(c, m) ==
  Let([c EXCEPT !.v3 = Xor(c.v3, m)], LAMBDA c1 :
  Let(compress(c1), LAMBDA c2 :
  Let(compress(c2), LAMBDA c3 :
  [c3 EXCEPT !.v0 = Xor(c3.v0, m)])))

\* init with the constants of v1 and v3 exchanged
SipInit_Swapped(k0, k1) ==
  [ v0 |-> Xor(k0, U64(\H736f, \H6d65, \H7073, \H6575)),
    v1 |-> Xor(k1, U64(\H7465, \H6462, \H7974, \H6573)),
    v2 |-> Xor(k0, U64(\H6c79, \H6765, \H6e65, \H7261)),
    v3 |-> Xor(k1, U64(\H646f, \H7261, \H6e64, \H6f6d)),
    length |-> 0,
    tail |-> Zero64,
    ntail |-> 0,
    fault |-> FALSE ]

\* init that ignores the keys of the factory
SipInit_Unkeyed(k0, k1) ==
  [ v0 |-> U64(\H736f, \H6d65, \H7073, \H6575),
    v1 |-> U64(\H646f, \H7261, \H6e64, \H6f6d),
    v2 |-> U64(\H6c79, \H6765, \H6e65, \H7261),
    v3 |-> U64(\H7465, \H6462, \H7974, \H6573),
    length |-> 0,
    tail |-> Zero64,
    ntail |-> 0,
    fault |-> FALSE ]

\* SipHashFunction::init with keys k0, k1.  `fault` is not a field of
\* SipContext: it records that a call on the engine panicked or read
\* outside its slice.
SipInit(k0, k1) ==
  [ v0 |-> Xor(k0, U64(\H736f, \H6d65, \H7073, \H6575)),
    v1 |-> Xor(k1, U64(\H646f, \H7261, \H6e64, \H6f6d)),
    v2 |-> Xor(k0, U64(\H6c79, \H6765, \H6e65, \H7261)),
    v3 |-> Xor(k1, U64(\H7465, \H6462, \H7974, \H6573)),
    length |-> 0,
    tail |-> Zero64,
    ntail |-> 0,
    fault |-> FALSE ]

\* the loop of update with `i <= end` for `i < end`
RECURSIVE UpdateLoop_OffByOne(_, _, _, _)
UpdateLoop_OffByOne(c, msg, i, end) ==
  IF i <= end
  THEN Let([Absorb(c, load_u64_le(msg, i))
              EXCEPT !.fault = c.fault \/ ~load_u64_le_ok(msg, i)],
           LAMBDA c1 : UpdateLoop_OffByOne(c1, msg, i + 8, end))
  ELSE [c |-> c, i |-> i]

\* the loop of update with `if` for `while`: one word at most
UpdateLoop_Once(c, msg, i, end) ==
  IF i < end
  THEN [c |-> [Absorb(c, load_u64_le(msg, i))
                 EXCEPT !.fault = c.fault \/ ~load_u64_le_ok(msg, i)],
        i |-> i + 8]
  ELSE [c |-> c, i |-> i]

\* the while loop of update: full words from msg[i ..] while i < end
RECURSIVE UpdateLoop(_, _, _, _)
UpdateLoop(c, msg, i, end) ==
  IF i < end
  THEN Let([Absorb(c, load_u64_le(msg, i))
              EXCEPT !.fault = c.fault \/ ~load_u64_le_ok(msg, i)],
           LAMBDA c1 : UpdateLoop(c1, msg, i + 8, end))
  ELSE [c |-> c, i |-> i]

\* the rest of update with `let mut i = 0` for `let mut i = needed`
UpdateRest_FromZero(c, msg, needed) ==
  LET length == Len(msg)
      len == length - needed
      left == len % 8
  IN Let(UpdateLoop(c, msg, 0, len - left), LAMBDA r :
       [r.c EXCEPT !.tail = u8to64_le(msg, r.i, left),
                   !.ntail = left,
                   !.fault = r.c.fault \/ len < 0 \/ len - left < 0
                             \/ ~u8to64_le_ok(msg, r.i, left)])

\* the rest of update with `self.ntail = len` for `self.ntail = left`
UpdateRest_NoMask(c, msg, needed) ==
  LET length == Len(msg)
      len == length - needed
      left == len % 8
  IN Let(UpdateLoop(c, msg, needed, len - left), LAMBDA r :
       [r.c EXCEPT !.tail = u8to64_le(msg, r.i, left),
                   !.ntail = len,
                   !.fault = r.c.fault \/ len < 0 \/ len - left < 0
                             \/ ~u8to64_le_ok(msg, r.i, left)])

\* update from "Buffered tail is now flushed" on; needed bytes of msg are
\* consumed already
UpdateRest(c, msg, needed) ==
  LET length == Len(msg)
      len == length - needed
      left == len % 8
  IN Let(UpdateLoop(c, msg, needed, len - left), LAMBDA r :
       [r.c EXCEPT !.tail = u8to64_le(msg, r.i, left),
                   !.ntail = left,
                   !.fault = r.c.fault \/ len < 0 \/ len - left < 0
                             \/ ~u8to64_le_ok(msg, r.i, left)])

\* update whose short path writes `self.tail = ...` for `self.tail |= ...`
SipUpdate_ShortOverwrites(c, msg) ==
  LET length == Len(msg)
      c0 == [c EXCEPT !.length = c.length + length]
  IN IF c0.ntail # 0
     THEN LET needed == 8 - c0.ntail
          IN IF length < needed
             THEN [c0 EXCEPT
                     !.tail = Shl(u8to64_le(msg, 0, length), 8 * c0.ntail),
                     !.ntail = c0.ntail + length,
                     !.fault = c0.fault \/ needed < 0 \/ 8 * c0.ntail >= 64
                               \/ ~u8to64_le_ok(msg, 0, length)]
             ELSE LET m == Or(c0.tail,
                              Shl(u8to64_le(msg, 0, needed), 8 * c0.ntail))
                  IN Let([Absorb(c0, m) EXCEPT
                            !.ntail = 0,
                            !.fault = c0.fault \/ needed < 0
                                      \/ 8 * c0.ntail >= 64
                                      \/ ~u8to64_le_ok(msg, 0, needed)],
                         LAMBDA c1 : UpdateRest(c1, msg, needed))
     ELSE UpdateRest(c0, msg, 0)

\* update that counts the bytes only after the early return
SipUpdate_LengthLate(c, msg) ==
  LET length == Len(msg)
      c0 == [c EXCEPT !.length = c.length + length]
  IN IF c.ntail # 0
     THEN LET needed == 8 - c.ntail
          IN IF length < needed
             THEN [c EXCEPT
                     !.tail = Or(c.tail,
                                 Shl(u8to64_le(msg, 0, length), 8 * c.ntail)),
                     !.ntail = c.ntail + length,
                     !.fault = c.fault \/ needed < 0 \/ 8 * c.ntail >= 64
                               \/ ~u8to64_le_ok(msg, 0, length)]
             ELSE LET m == Or(c0.tail,
                              Shl(u8to64_le(msg, 0, needed), 8 * c0.ntail))
                  IN Let([Absorb(c0, m) EXCEPT
                            !.ntail = 0,
                            !.fault = c0.fault \/ needed < 0
                                      \/ 8 * c0.ntail >= 64
                                      \/ ~u8to64_le_ok(msg, 0, needed)],
                         LAMBDA c1 : UpdateRest(c1, msg, needed))
     ELSE UpdateRest(c0, msg, 0)

\* update without the early return: a pending block is always completed
SipUpdate_NoEarlyReturn(c, msg) ==
  LET length == Len(msg)
      c0 == [c EXCEPT !.length = c.length + length]
  IN IF c0.ntail # 0
     THEN LET needed == 8 - c0.ntail
              m == Or(c0.tail, Shl(u8to64_le(msg, 0, needed), 8 * c0.ntail))
          IN Let([Absorb(c0, m) EXCEPT
                    !.ntail = 0,
                    !.fault = c0.fault \/ needed < 0 \/ 8 * c0.ntail >= 64
                              \/ ~u8to64_le_ok(msg, 0, needed)],
                 LAMBDA c1 : UpdateRest(c1, msg, needed))
     ELSE UpdateRest(c0, msg, 0)

\* SipContext::update(msg)
SipUpdate(c, msg) ==
  LET length == Len(msg)
      c0 == [c EXCEPT !.length = c.length + length]
  IN IF c0.ntail # 0
     THEN LET needed == 8 - c0.ntail
          IN IF length < needed
             THEN [c0 EXCEPT
                     !.tail = Or(c0.tail,
                                 Shl(u8to64_le(msg, 0, length), 8 * c0.ntail)),
                     !.ntail = c0.ntail + length,
                     !.fault = c0.fault \/ needed < 0 \/ 8 * c0.ntail >= 64
                               \/ ~u8to64_le_ok(msg, 0, length)]
             ELSE LET m == Or(c0.tail,
                              Shl(u8to64_le(msg, 0, needed), 8 * c0.ntail))
                  IN Let([Absorb(c0, m) EXCEPT
                            !.ntail = 0,
                            !.fault = c0.fault \/ needed < 0
                                      \/ 8 * c0.ntail >= 64
                                      \/ ~u8to64_le_ok(msg, 0, needed)],
                         LAMBDA c1 : UpdateRest(c1, msg, needed))
     ELSE UpdateRest(c0, msg, 0)

\* finish that tags the last block with the length held at 255 when it is
\* above, not with its low byte
SipFinish_LengthClamped(c) ==
  LET b == Or(Shl(FromByte(IF c.length > 255 THEN 255 ELSE c.length), 56),
              c.tail)
  IN Let(Absorb(c, b), LAMBDA c1 :
     Let(compress([c1 EXCEPT !.v2 = Xor(c1.v2, FromByte(\Hff))]), LAMBDA c2 :
     Let(compress(c2), LAMBDA c3 :
     Let(compress(c3), LAMBDA c4 :
     Let(compress(c4), LAMBDA c5 :
     Xor(Xor(Xor(c5.v0, c5.v1), c5.v2), c5.v3))))))

\* SipContext::finish: the digest
SipFinish(c) ==
  LET b == Or(Shl(FromByte(c.length % 256), 56), c.tail)
  IN Let(Absorb(c, b), LAMBDA c1 :
     Let(compress([c1 EXCEPT !.v2 = Xor(c1.v2, FromByte(\Hff))]), LAMBDA c2 :
     Let(compress(c2), LAMBDA c3 :
     Let(compress(c3), LAMBDA c4 :
     Let(compress(c4), LAMBDA c5 :
     Xor(Xor(Xor(c5.v0, c5.v1), c5.v2), c5.v3))))))

(* ------------------ src/src/traits.rs, src/src/lib.rs ----------------- *)

\* what a call returned: its digest, or nothing when the call panicked
Returned(d) == [ok |-> TRUE, value |-> d]
Panicked == [ok |-> FALSE, value |-> Zero64]
NotCalled == [ok |-> FALSE, value |-> << >>]

\* HashContext::finish on an engine whose updates ran to their end
FinishOf(c) == IF c.fault THEN Panicked ELSE Returned(SipFinish(c))

\* digest without its update
HashFunction_digest_NoUpdate(k0, k1, bytes) ==
  LET ctx0 == SipInit(k0, k1)
  IN FinishOf(ctx0)

\* HashFunction::digest(bytes): init, update(bytes), finish
HashFunction_digest(k0, k1, bytes) ==
  LET ctx0 == SipInit(k0, k1)
      ctx1 == SipUpdate(ctx0, bytes)
  IN FinishOf(ctx1)

\* digest_u8 that digests the byte widened to two bytes
HashFunction_digest_u8_Wide(k0, k1, v) == HashFunction_digest(k0, k1, << v, 0 >>)

\* HashFunction::digest_u8(v): self.digest(&[v])
HashFunction_digest_u8(k0, k1, v) == HashFunction_digest(k0, k1, << v >>)

\* <u8 as Hash>::hash: ctx.update(&[*self])
Hash_u8_hash(c, b) == SipUpdate(c, << b >>)

\* hash of a slice that leaves the last byte out
Hash_slice_hash_Short(c, bytes) ==
  SipUpdate(c, IF bytes = << >> THEN bytes ELSE SubSeq(bytes, 1, Len(bytes) - 1))

\* <[u8] as Hash>::hash: ctx.update(self)
Hash_slice_hash(c, bytes) == SipUpdate(c, bytes)

\* Hash::digest, the provided method, which traits.rs keeps for u8:
\* init, self.hash(&mut ctx), finish
Hash_u8_digest_provided(k0, k1, b) ==
  LET ctx0 == SipInit(k0, k1)
      ctx1 == Hash_u8_hash(ctx0, b)
  IN FinishOf(ctx1)

\* <u8 as Hash>::digest of lib.rs: f.digest_u8(*self)
Hash_u8_digest(k0, k1, b) == HashFunction_digest_u8(k0, k1, b)

\* <[u8] as Hash>::digest: f.digest(self)
Hash_slice_digest(k0, k1, bytes) == HashFunction_digest(k0, k1, bytes)

(* ------------------------------ inputs -------------------------------- *)

\* SipHashFunction::new() is new_with_keys(0, 0); (7, 39) are the keys of
\* the benchmarks; the last pair is the key of the reference vectors
KeyPairs ==
  { << Zero64, Zero64 >>,
    << FromByte(7), FromByte(39) >>,
    << U64(\H0706, \H0504, \H0302, \H0100), U64(\H0f0e, \H0d0c, \H0b0a, \H0908) >> }

\* the byte streams the engines are fed from: 0, 1, 2, ... and 42, 42, ...
\* and 255, 254, 253, ...
Streams == {"ramp", "fill42", "high"}

ByteAt(s, i) ==
  IF s = "ramp" THEN i % 256
  ELSE IF s = "fill42" THEN 42
  ELSE 255 - (i % 256)

\* the n bytes of stream s from offset off on
RECURSIVE Take(_, _, _)
Take(s, off, n) ==
  IF n = 0 THEN << >> ELSE Append(Take(s, off, n - 1), ByteAt(s, off + n - 1))

(* --------------------------- state machine ---------------------------- *)

VARIABLES
  k0, k1,     \* the keys of the SipHashFunction
  st,         \* st[e]: "none", "live", "finished" (moved into finish), "panicked"
  ctx,        \* ctx[e]: the SipContext of engine e while it is live
  result,     \* result[e]: what finish returned
  stream,     \* stream[e]: the stream engine e is fed from
  fed,        \* fed[e]: the bytes passed to engine e so far, in order
  calls,      \* calls[e]: the number of update/hash calls on engine e
  shot        \* shot[op]: what the one-call method op returned

vars == << k0, k1, st, ctx, result, stream, fed, calls, shot >>

Ops == {"digest", "digest_u8", "u8_digest_provided", "u8_digest", "slice_digest"}

\* the context of a slot that holds no engine
NoContext == [SipInit(Zero64, Zero64) EXCEPT !.v0 = Zero64, !.v1 = Zero64,
                                             !.v2 = Zero64, !.v3 = Zero64]

Init ==
  /\ \E k \in KeyPairs : k0 = k[1] /\ k1 = k[2]
  /\ st = [e \in Engines |-> "none"]
  /\ ctx = [e \in Engines |-> NoContext]
  /\ result = [e \in Engines |-> NotCalled]
  /\ stream = [e \in Engines |-> "ramp"]
  /\ fed = [e \in Engines |-> << >>]
  /\ calls = [e \in Engines |-> 0]
  /\ shot = [op \in Ops |-> NotCalled]

\* the write of a call through a context that all live engines share
Landed_Shared(e, c, msg) ==
  /\ st' = [st EXCEPT ![e] = IF c.fault THEN "panicked" ELSE "live"]
  /\ ctx' = [f \in Engines |->
               IF c.fault /\ f = e THEN NoContext
               ELSE IF f = e \/ st[f] = "live" THEN c ELSE ctx[f]]
  /\ fed' = [fed EXCEPT ![e] = fed[e] \o msg]
  /\ calls' = [calls EXCEPT ![e] = calls[e] + 1]
  /\ UNCHANGED << k0, k1, result, stream, shot >>

\* the engine after a call that returned c: a fault ends the engine
Landed(e, c, msg) ==
  /\ st' = [st EXCEPT ![e] = IF c.fault THEN "panicked" ELSE "live"]
  /\ ctx' = [ctx EXCEPT ![e] = IF c.fault THEN NoContext ELSE c]
  /\ fed' = [fed EXCEPT ![e] = fed[e] \o msg]
  /\ calls' = [calls EXCEPT ![e] = calls[e] + 1]
  /\ UNCHANGED << k0, k1, result, stream, shot >>

\* init that gives each engine a key of its own
NewEngine_Seeded(e, s) ==
  /\ st[e] = "none"
  /\ st' = [st EXCEPT ![e] = "live"]
  /\ ctx' = [ctx EXCEPT ![e] = SipInit(Xor(k0, FromByte(e)), k1)]
  /\ stream' = [stream EXCEPT ![e] = s]
  /\ UNCHANGED << k0, k1, result, fed, calls, shot >>

\* let ctx = f.init(), to be fed from stream s
NewEngine(e, s) ==
  /\ st[e] = "none"
  /\ st' = [st EXCEPT ![e] = "live"]
  /\ ctx' = [ctx EXCEPT ![e] = SipInit(k0, k1)]
  /\ stream' = [stream EXCEPT ![e] = s]
  /\ UNCHANGED << k0, k1, result, fed, calls, shot >>

\* ctx.update(msg)
Update(e, msg) ==
  /\ st[e] = "live"
  /\ calls[e] < MaxCalls
  /\ Landed(e, SipUpdate(ctx[e], msg), msg)

\* b.hash(&mut ctx) for a byte b
HashU8(e, b) ==
  /\ st[e] = "live"
  /\ calls[e] < MaxCalls
  /\ Landed(e, Hash_u8_hash(ctx[e], b), << b >>)

\* bytes.hash(&mut ctx) for a slice
HashSlice(e, bytes) ==
  /\ st[e] = "live"
  /\ calls[e] < MaxCalls
  /\ Landed(e, Hash_slice_hash(ctx[e], bytes), bytes)

\* finish that borrows the engine and leaves it usable
Finish_Borrowing(e) ==
  /\ st[e] = "live"
  /\ result' = [result EXCEPT ![e] = FinishOf(ctx[e])]
  /\ UNCHANGED << k0, k1, st, ctx, stream, fed, calls, shot >>

\* ctx.finish(): the engine is moved into the call
Finish(e) ==
  /\ st[e] = "live"
  /\ st' = [st EXCEPT ![e] = "finished"]
  /\ result' = [result EXCEPT ![e] = FinishOf(ctx[e])]
  /\ ctx' = [ctx EXCEPT ![e] = NoContext]
  /\ UNCHANGED << k0, k1, stream, fed, calls, shot >>

\* a one-call method op of the factory returned r
Called(op, r) ==
  /\ shot[op] = NotCalled
  /\ shot' = [shot EXCEPT ![op] = r]
  /\ UNCHANGED << k0, k1, st, ctx, result, stream, fed, calls >>

\* f.digest(bytes)
Digest(bytes) == Called("digest", HashFunction_digest(k0, k1, bytes))

\* f.digest_u8(b)
DigestU8(b) == Called("digest_u8", HashFunction_digest_u8(k0, k1, b))

\* b.digest(&f) for a byte b, where digest is the provided method
U8DigestProvided(b) ==
  Called("u8_digest_provided", Hash_u8_digest_provided(k0, k1, b))

\* b.digest(&f) for a byte b, where digest is the override of lib.rs
U8Digest(b) == Called("u8_digest", Hash_u8_digest(k0, k1, b))

\* bytes.digest(&f) for a slice
SliceDigest(bytes) == Called("slice_digest", Hash_slice_digest(k0, k1, bytes))

\* the next n bytes of the stream of engine e
NextBytes(e, n) == Take(stream[e], Len(fed[e]), n)

\* One engine, fed at most MaxTotal bytes; once it has finished, the one-call
\* methods are called on the bytes it was fed.
Next ==
  \E e \in Solo :
    \/ \E s \in Streams : NewEngine(e, s)
    \/ \E n \in 0..(MaxTotal - Len(fed[e])) : Update(e, NextBytes(e, n))
    \/ Len(fed[e]) < MaxTotal /\ HashU8(e, NextBytes(e, 1)[1])
    \/ \E n \in 0..(MaxTotal - Len(fed[e])) : HashSlice(e, NextBytes(e, n))
    \/ Finish(e)
    \/ st[e] = "finished" /\ Digest(fed[e])
    \/ st[e] = "finished" /\ SliceDigest(fed[e])
    \/ st[e] = "finished" /\ Len(fed[e]) = 1 /\ DigestU8(fed[e][1])
    \/ st[e] = "finished" /\ Len(fed[e]) = 1 /\ U8DigestProvided(fed[e][1])
    \/ st[e] = "finished" /\ Len(fed[e]) = 1 /\ U8Digest(fed[e][1])

Spec == Init /\ [][Next]_vars

\* Two engines of one factory, their calls interleaved in any order, each fed
\* at most MaxTotalMulti bytes of the stream 0, 1, 2, ...
NextMulti ==
  \E e \in Engines :
    \/ NewEngine(e, "ramp")
    \/ \E n \in 0..(MaxTotalMulti - Len(fed[e])) : Update(e, NextBytes(e, n))
    \/ Finish(e)

SpecMulti == Init /\ [][NextMulti]_vars

\* the lengths of the inputs of the runs with long inputs: empty, shorter
\* than a block, and ten blocks with a rest
LongPieces == {0, 3, 85, 86}

\* One engine, fed at most MaxLong bytes in pieces of the lengths LongPieces.
NextLong ==
  \E e \in Solo :
    \/ \E s \in Streams : NewEngine(e, s)
    \/ \E n \in LongPieces :
         Len(fed[e]) + n <= MaxLong /\ Update(e, NextBytes(e, n))
    \/ Finish(e)

SpecLong == Init /\ [][NextLong]_vars

(* ------------------------------ claims -------------------------------- *)

\* the digest a fresh engine returns after one update with all of bytes
WholeDigest(bytes) == FinishOf(SipUpdate(SipInit(k0, k1), bytes))

\* C1: chunking invariance.  An engine that was fed its bytes in any number
\* of pieces (empty ones included) and then finished returned the digest that
\* a fresh engine returns after a single update with the concatenation.
C1_ChunkingInvariance ==
  \A e \in Engines :
    st[e] = "finished" => result[e] = WholeDigest(fed[e])

\* an engine finished after three pieces that span more than two blocks
C1_Witness ==
  /\ st[1] = "finished" /\ result[1].ok
  /\ calls[1] = 3 /\ Len(fed[1]) = MaxTotal

\* the published SipHash-2-4 vectors for the inputs 0, 1, ..., len-1 under
\* the keys 0x0706050403020100, 0x0f0e0d0c0b0a0908, by length 0..18
ReferenceVectors ==
  << U64(\H726f, \Hdb47, \Hdd0e, \H0e31), U64(\H74f8, \H39c5, \H93dc, \H67fd),
     U64(\H0d6c, \H8009, \Hd9a9, \H4f5a), U64(\H8567, \H6696, \Hd7fb, \H7e2d),
     U64(\Hcf27, \H94e0, \H2771, \H87b7), U64(\H1876, \H5564, \Hcd99, \Ha68d),
     U64(\Hcbc9, \H466e, \H58fe, \He3ce), U64(\Hab02, \H00f5, \H8b01, \Hd137),
     U64(\H93f5, \Hf579, \H9a93, \H2462), U64(\H9e00, \H82df, \H0ba9, \He4b0),
     U64(\H7a5d, \Hbbc5, \H94dd, \Hb9f3), U64(\Hf4b3, \H2f46, \H226b, \Hada7),
     U64(\H751e, \H8fbc, \H860e, \He5fb), U64(\H14ea, \H5627, \Hc084, \H3d90),
     U64(\Hf723, \Hca90, \H8e7a, \Hf2ee), U64(\Ha129, \Hca61, \H49be, \H45e5),
     U64(\H3f2a, \Hcc7f, \H57c2, \H9bdb), U64(\H699a, \He9f5, \H2cbe, \H4794),
     U64(\H4bc1, \Hb3f0, \H968d, \Hd39c) >>

ReferenceKeys ==
  /\ k0 = U64(\H0706, \H0504, \H0302, \H0100)
  /\ k1 = U64(\H0f0e, \H0d0c, \H0b0a, \H0908)

\* C2: known-vector conformance.  Under the reference keys, the digest of
\* 0, 1, ..., len-1 is the published vector for len, for every len the run reaches,
\* both from an engine and from HashFunction::digest; the digest of the empty
\* input is 0x726fdb47dd0e0e31.
C2_KnownVectors ==
  ReferenceKeys =>
    /\ \A e \in Engines :
         (st[e] = "finished" /\ stream[e] = "ramp"
            /\ Len(fed[e]) < Len(ReferenceVectors))
         => result[e] = Returned(ReferenceVectors[Len(fed[e]) + 1])
    /\ (shot["digest"] # NotCalled /\ st[1] = "finished" /\ fed[1] = << >>)
         => shot["digest"] = Returned(U64(\H726f, \Hdb47, \Hdd0e, \H0e31))

\* the 16-byte reference input was digested
C2_Witness ==
  /\ ReferenceKeys
  /\ st[1] = "finished" /\ stream[1] = "ramp" /\ Len(fed[1]) = 16
  /\ result[1] = Returned(U64(\H3f2a, \Hcc7f, \H57c2, \H9bdb))

\* C3: the engine invariant.  In every live engine 0 <= ntail < 8 and every
\* byte of tail at position ntail or above is zero.
C3_TailInvariant ==
  \A e \in Engines :
    st[e] = "live" =>
      /\ ctx[e].ntail >= 0 /\ ctx[e].ntail < 8
      /\ \A j \in 1..8 : j > ctx[e].ntail => ctx[e].tail[j] = 0

\* seven bytes are pending after a block was absorbed in a second call
C3_Witness ==
  /\ st[1] = "live" /\ calls[1] >= 2 /\ Len(fed[1]) = 15
  /\ ctx[1].ntail = 7 /\ ctx[1].tail[7] # 0

\* C4: update never fails.  No update or hash call, and no one-call method,
\* panicked or read outside its slice: every load_u64_le(msg, i) had
\* i + 8 <= len(msg), every index of u8to64_le was below len(msg), and
\* 8 - ntail, length - needed and len - left were never negative.
C4_UpdateNeverFails ==
  /\ \A e \in Engines : st[e] # "panicked"
  /\ \A e \in Engines : st[e] = "live" => ~ctx[e].fault
  /\ \A op \in Ops : shot[op] # Panicked

\* an empty update, an update that completed a pending block and ran the
\* loop, and the engine is still live
C4_Witness ==
  /\ st[1] = "live" /\ calls[1] = 3 /\ Len(fed[1]) = MaxTotal
  /\ ctx[1].ntail = MaxTotal % 8

\* C5: one-shot equivalence.  factory.digest(bytes) returned what an engine
\* of the factory returned from finish after a single update(bytes).
C5_OneShot ==
  (shot["digest"] # NotCalled /\ st[1] = "finished" /\ calls[1] = 1)
    => shot["digest"] = result[1]

\* digest was called on more than one block and on what an engine got in
\* one update
C5_Witness ==
  /\ shot["digest"] # NotCalled /\ shot["digest"].ok
  /\ st[1] = "finished" /\ calls[1] = 1 /\ Len(fed[1]) > 8

\* C6: single-byte equivalence.  factory.digest_u8(b) returned what
\* factory.digest(&[b]) returned.
C6_DigestU8 ==
  (shot["digest_u8"] # NotCalled /\ shot["digest"] # NotCalled)
    => shot["digest_u8"] = shot["digest"]

\* both were called on the byte 255
C6_Witness ==
  /\ shot["digest_u8"] # NotCalled /\ shot["digest"] # NotCalled
  /\ shot["digest_u8"].ok /\ fed[1] = << 255 >>

\* C7: Hash::digest equivalence.  For a byte (the provided digest of
\* traits.rs and the override of lib.rs) and for a slice, value.digest(f)
\* returned what an engine of f returned from finish after value.hash alone.
C7_HashDigest ==
  \A op \in {"u8_digest_provided", "u8_digest", "slice_digest"} :
    (shot[op] # NotCalled /\ st[1] = "finished" /\ calls[1] = 1)
      => shot[op] = result[1]

\* the three were called on a byte an engine hashed
C7_Witness ==
  /\ \A op \in {"u8_digest_provided", "u8_digest", "slice_digest"} :
       shot[op] # NotCalled /\ shot[op].ok
  /\ st[1] = "finished" /\ calls[1] = 1 /\ fed[1] = << 42 >>

\* the slice digest was called on a slice of two blocks and more
C7_WitnessSlice ==
  /\ shot["slice_digest"] # NotCalled /\ shot["slice_digest"].ok
  /\ st[1] = "finished" /\ calls[1] = 1 /\ Len(fed[1]) = MaxTotal

\* everything the model holds of engine e
EngineState(e) == << st[e], ctx[e], result[e], stream[e], fed[e], calls[e] >>

\* C8: single use.  An engine passes from init through updates to finish and
\* never back; once finish has returned, nothing happens to the engine any
\* more: no second finish, no update.
C8_SingleUse ==
  [][\A e \in Engines :
       /\ (result[e] # NotCalled \/ st[e] = "finished")
            => (st[e] = "finished" /\ EngineState(e)' = EngineState(e))
       /\ st[e] = "live" => st'[e] \in {"live", "finished", "panicked"}
       /\ st[e] = "none" => st'[e] \in {"none", "live"}]_vars

\* steps were taken after the finish of an engine that had three updates
C8_Witness ==
  /\ st[1] = "finished" /\ calls[1] = 3 /\ result[1].ok
  /\ shot["digest"] # NotCalled

\* C9: init is a pure function of the keys.  Whatever engines the factory
\* made before and whatever was done with them, a new engine has
\* v0 = k0 ^ 0x736f6d6570736575, v1 = k1 ^ 0x646f72616e646f6d,
\* v2 = k0 ^ 0x6c7967656e657261, v3 = k1 ^ 0x7465646279746573 and
\* length = 0, tail = 0, ntail = 0.
C9_InitPure ==
  [][\A e \in Engines :
       (st[e] = "none" /\ st'[e] # "none") =>
         /\ ctx'[e].v0 = Xor(k0, U64(\H736f, \H6d65, \H7073, \H6575))
         /\ ctx'[e].v1 = Xor(k1, U64(\H646f, \H7261, \H6e64, \H6f6d))
         /\ ctx'[e].v2 = Xor(k0, U64(\H6c79, \H6765, \H6e65, \H7261))
         /\ ctx'[e].v3 = Xor(k1, U64(\H7465, \H6462, \H7974, \H6573))
         /\ ctx'[e].length = 0
         /\ ctx'[e].tail = Zero64
         /\ ctx'[e].ntail = 0]_vars

\* the second engine is new after the first had updates and was finished,
\* under keys that are not zero
C9_Witness ==
  /\ st[1] = "finished" /\ calls[1] >= 2 /\ Len(fed[1]) >= 8
  /\ st[2] = "live" /\ calls[2] = 0 /\ k0 # Zero64

\* C10: engines are independent and the factory is immutable.  A step on one
\* engine changes no other engine and never the keys, and two engines that
\* were fed the same bytes, in whatever pieces and interleaving, returned the
\* same digest.
C10_Independent ==
  /\ [][/\ k0' = k0 /\ k1' = k1
        /\ \A e, f \in Engines :
             (e # f /\ EngineState(e)' # EngineState(e))
               => EngineState(f)' = EngineState(f)]_vars
  /\ [](\A e, f \in Engines :
          (st[e] = "finished" /\ st[f] = "finished" /\ fed[e] = fed[f])
            => result[e] = result[f])

\* both engines finished on the same nine bytes, cut differently
C10_Witness ==
  /\ st[1] = "finished" /\ st[2] = "finished"
  /\ fed[1] = fed[2] /\ Len(fed[1]) = MaxTotalMulti
  /\ calls[1] = 1 /\ calls[2] = 3

\* the keys of SipHashFunction::new() and the keys of the benchmarks
NewKeys == k0 = Zero64 /\ k1 = Zero64
BenchKeys == k0 = FromByte(7) /\ k1 = FromByte(39)

\* C11: key sensitivity on the input [42].  What a factory with the keys
\* (0, 0) returns for the one byte 42, from an engine and from digest_u8,
\* differs from what a factory with the keys (7, 39) returns for it, and the
\* other way round.
C11_KeySensitivity ==
  LET under00 == HashFunction_digest_u8(Zero64, Zero64, 42)
      under739 == HashFunction_digest_u8(FromByte(7), FromByte(39), 42)
      got == { result[1] : x \in { y \in {1} : st[1] = "finished" } }
             \cup ({ shot["digest_u8"] } \ { NotCalled })
  IN fed[1] = << 42 >> =>
       \A r \in got :
         /\ r.ok
         /\ NewKeys => r # under739
         /\ BenchKeys => r # under00

\* the byte 42 was digested under the keys (7, 39), by an engine and by
\* digest_u8, to 0xa60aa7ff4934f6c7
C11_Witness ==
  /\ BenchKeys /\ fed[1] = << 42 >> /\ st[1] = "finished"
  /\ result[1] = Returned(U64(\Ha60a, \Ha7ff, \H4934, \Hf6c7))
  /\ shot["digest_u8"] = result[1]

\* C12: determinism.  Two engines are two runs under the same keys.  Whenever
\* both were fed the same bytes (all the more so by the same sequence of
\* update calls) and are not finished yet, they are in the same state: lanes,
\* tail, ntail and length; and when both have finished after the same bytes
\* in the same number of calls, finish returned the same digest to both.
C12_Deterministic ==
  \A e, f \in Engines :
    (e # f /\ fed[e] = fed[f]) =>
      /\ (st[e] = "live" /\ st[f] = "live") => ctx[e] = ctx[f]
      /\ (st[e] = "finished" /\ st[f] = "finished" /\ calls[e] = calls[f])
           => (result[e].ok /\ result[e] = result[f])

\* two engines, before finish, after the same bytes in two calls each, a
\* block absorbed and a byte pending
C12_Witness ==
  /\ st[1] = "live" /\ st[2] = "live"
  /\ fed[1] = fed[2] /\ Len(fed[1]) = MaxTotalMulti
  /\ calls[1] = 2 /\ calls[2] = 2
  /\ ctx[1].ntail = MaxTotalMulti % 8 /\ ctx[1] = ctx[2]

\* the four lanes of a context
Lanes(c) == << c.v0, c.v1, c.v2, c.v3 >>

\* the u64 that packs the n bytes B[from], B[from + 1], ... (Rust indices)
\* little-endian, n < 8
PackLE(B, from, n) == Bytes([j \in 1..8 |-> IF j <= n THEN B[from + j] ELSE 0])

\* the k-th little-endian 8-byte word of B, k = 0, 1, ...
WordLE(B, k) == SubSeq(B, 8 * k + 1, 8 * k + 8)

\* c after the first n words of B were absorbed in order
RECURSIVE AbsorbWords(_, _, _)
AbsorbWords(c, B, n) ==
  IF n = 0 THEN c
  ELSE Let(AbsorbWords(c, B, n - 1), LAMBDA c1 : Absorb(c1, WordLE(B, n - 1)))

\* the bytes the call of the step passed to engine e
Passed(e) == SubSeq(fed'[e], Len(fed[e]) + 1, Len(fed'[e]))

\* the step is a call of update or hash on engine e
CallOn(e) == st[e] = "live" /\ calls'[e] = calls[e] + 1

\* C13: block accounting.  A live engine that was fed B, n bytes in all, in
\* whatever pieces, has ntail = n mod 8, tail = the last n mod 8 bytes of B
\* packed little-endian, and the lanes that absorbing the first n div 8
\* words of B in order gives from the lanes of init.  And a call that
\* completes a pending block with needed = 8 - ntail bytes absorbs that block,
\* then the (len - needed) div 8 words at the offsets needed, needed + 8, ...
\* of its input, and leaves the last (len - needed) mod 8 bytes as the tail.
C13_BlockAccounting ==
  /\ [](\A e \in Engines :
          st[e] = "live" =>
            LET n == Len(fed[e])
            IN /\ ctx[e].ntail = n % 8
               /\ ctx[e].tail = PackLE(fed[e], 8 * (n \div 8), n % 8)
               /\ Lanes(ctx[e])
                    = Lanes(AbsorbWords(SipInit(k0, k1), fed[e], n \div 8)))
  /\ [][\A e \in Engines :
          LET msg == Passed(e)
              ntail == ctx[e].ntail
              needed == 8 - ntail
              len == Len(msg) - needed
              rest == SubSeq(msg, needed + 1, Len(msg))
              m == Bytes([j \in 1..8 |-> IF j <= ntail THEN ctx[e].tail[j]
                                         ELSE msg[j - ntail]])
          IN (CallOn(e) /\ ntail > 0 /\ Len(msg) >= needed) =>
               /\ st'[e] = "live"
               /\ Lanes(ctx'[e])
                    = Lanes(AbsorbWords(Absorb(ctx[e], m), rest, len \div 8))
               /\ ctx'[e].ntail = len % 8
               /\ ctx'[e].tail = PackLE(rest, 8 * (len \div 8), len % 8)]_vars

\* two calls made two blocks and one pending byte of MaxTotal bytes
C13_Witness ==
  /\ st[1] = "live" /\ calls[1] = 2 /\ Len(fed[1]) = MaxTotal
  /\ ctx[1].ntail = MaxTotal % 8 /\ ctx[1].ntail > 0
  /\ ctx[1].tail[1] = fed[1][MaxTotal] /\ stream[1] = "high"

\* C14: a short update does no mixing.  A call on an engine with ntail > 0
\* whose input is shorter than 8 - ntail leaves v0, v1, v2 and v3 as they
\* were, leaves the low ntail bytes of tail as they were, puts its input at
\* the byte positions ntail .. ntail + len - 1 of tail, and adds len to ntail.
C14_ShortUpdate ==
  [][\A e \in Engines :
       LET msg == Passed(e)
           ntail == ctx[e].ntail
       IN (CallOn(e) /\ ntail > 0 /\ Len(msg) < 8 - ntail) =>
            /\ st'[e] = "live"
            /\ Lanes(ctx'[e]) = Lanes(ctx[e])
            /\ \A j \in 1..ntail : ctx'[e].tail[j] = ctx[e].tail[j]
            /\ \A t \in 1..Len(msg) : ctx'[e].tail[ntail + t] = msg[t]
            /\ ctx'[e].ntail = ntail + Len(msg)]_vars

\* three short calls in a row left six bytes of the stream 255, 254, ...
\* pending and the lanes as init made them
C14_Witness ==
  /\ st[1] = "live" /\ calls[1] = 3 /\ stream[1] = "high"
  /\ Len(fed[1]) = 6 /\ ctx[1].ntail = 6
  /\ ctx[1].tail = << 255, 254, 253, 252, 251, 250, 0, 0 >>
  /\ Lanes(ctx[1]) = Lanes(SipInit(k0, k1))

\* C15: length counts all the bytes.  In a live engine length is the number
\* of bytes passed to it in all its calls; every call adds the length of its
\* input, the calls that return early without mixing too, so length never
\* decreases.
C15_LengthCounts ==
  /\ [](\A e \in Engines : st[e] = "live" => ctx[e].length = Len(fed[e]))
  /\ [][\A e \in Engines :
          /\ (st[e] = "live" /\ st'[e] = "live")
               => ctx'[e].length >= ctx[e].length
          /\ CallOn(e) =>
               /\ st'[e] = "live"
               /\ ctx'[e].length = ctx[e].length + Len(Passed(e))]_vars

\* 92 bytes were counted over three calls of 86, 3 and 3 bytes; in whatever
\* order they came, one of the calls of 3 bytes returned early
C15_Witness ==
  /\ st[1] = "live" /\ calls[1] = 3 /\ Len(fed[1]) = 92
  /\ ctx[1].length = 92 /\ ctx[1].ntail = 4

\* the last block of the finalization: the pending bytes in the bytes 0..6,
\* the low byte of length in byte 7
Pad(c) == Bytes([j \in 1..8 |-> IF j = 8 THEN c.length % 256 ELSE c.tail[j]])

\* n compression rounds on c
RECURSIVE Rounds(_, _)
Rounds(c, n) ==
  IF n = 0 THEN c ELSE Let(compress(c), LAMBDA c1 : Rounds(c1, n - 1))

\* v3 ^= pad, two rounds, v0 ^= pad, v2 ^= 0xff, four rounds,
\* v0 ^ v1 ^ v2 ^ v3
Finalization(c) ==
  LET pad == Pad(c) IN
  Let(Rounds([c EXCEPT !.v3 = Xor(c.v3, pad)], 2), LAMBDA c1 :
  Let(Rounds([c1 EXCEPT !.v0 = Xor(c1.v0, pad),
                        !.v2 = Xor(c1.v2, FromByte(255))], 4), LAMBDA c2 :
  Xor(c2.v0, Xor(c2.v1, Xor(c2.v2, c2.v3)))))

\* C16: finish computes the finalization.  From every engine state that
\* updates reach, finish returns v0 ^ v1 ^ v2 ^ v3 after: pad = ((length mod
\* 256) << 56) | tail; v3 ^= pad; two rounds; v0 ^= pad; v2 ^= 0xff; four
\* rounds.  The pending bytes of tail never reach the byte of pad that
\* holds the length.
C16_Finalization ==
  [][\A e \in Engines :
       (st[e] = "live" /\ st'[e] = "finished") =>
         /\ ctx[e].tail[8] = 0
         /\ \A j \in 1..7 : j > ctx[e].ntail => ctx[e].tail[j] = 0
         /\ result'[e] = Returned(Finalization(ctx[e]))]_vars

\* an engine finished on the 258 bytes 0, 1, ..., 255, 0, 1 under the
\* reference keys: the low byte of the length is 2, two bytes were pending,
\* and the digest is that of SipHash-2-4
C16_Witness ==
  /\ ReferenceKeys /\ st[1] = "finished" /\ stream[1] = "ramp"
  /\ Len(fed[1]) = 258 /\ calls[1] = 3
  /\ result[1] = Returned(U64(\H3490, \H4eaf, \H0999, \H3c21))

\* A u64 as its 64 bits, bit 0 first: the arithmetic of the round written on
\* bits, apart from the operators on bytes above.
ToBits(x) ==
  SubSeq([i \in 1..64 |-> Bit(x[((i - 1) \div 8) + 1], (i - 1) % 8)], 1, 64)

FromBits(a) ==
  Bytes([j \in 1..8 |->
           a[8 * j - 7] + 2 * a[8 * j - 6] + 4 * a[8 * j - 5] + 8 * a[8 * j - 4]
           + 16 * a[8 * j - 3] + 32 * a[8 * j - 2] + 64 * a[8 * j - 1]
           + 128 * a[8 * j]])

\* rotate-left by b: bit i goes to bit (i + b) mod 64
RotateLeft(a, b) == SubSeq([i \in 1..64 |-> a[((i - 1 - b) % 64) + 1]], 1, 64)

XorBits(a, b) == SubSeq([i \in 1..64 |-> (a[i] + b[i]) % 2], 1, 64)

\* addition modulo 2^64: the carry runs from bit 0 to bit 63 and is dropped
\* there
RECURSIVE AddBits(_, _, _, _)
AddBits(a, b, i, carry) ==
  IF i > 64 THEN << >>
  ELSE LET sum == a[i] + b[i] + carry
       IN << sum % 2 >> \o AddBits(a, b, i + 1, sum \div 2)

AddMod(a, b) == AddBits(a, b, 1, 0)

\* the round on the lanes l = << v0, v1, v2, v3 >>, each as bits
ArxRound(l) ==
  LET s1 == [l EXCEPT ![1] = AddMod(l[1], l[2])]              \* v0 += v1
      s2 == [s1 EXCEPT ![2] = RotateLeft(s1[2], 13)]          \* v1 = rotl(v1, 13)
      s3 == [s2 EXCEPT ![2] = XorBits(s2[2], s2[1])]          \* v1 ^= v0
      s4 == [s3 EXCEPT ![1] = RotateLeft(s3[1], 32)]          \* v0 = rotl(v0, 32)
      s5 == [s4 EXCEPT ![3] = AddMod(s4[3], s4[4])]           \* v2 += v3
      s6 == [s5 EXCEPT ![4] = RotateLeft(s5[4], 16)]          \* v3 = rotl(v3, 16)
      s7 == [s6 EXCEPT ![4] = XorBits(s6[4], s6[3])]          \* v3 ^= v2
      s8 == [s7 EXCEPT ![1] = AddMod(s7[1], s7[4])]           \* v0 += v3
      s9 == [s8 EXCEPT ![4] = RotateLeft(s8[4], 21)]          \* v3 = rotl(v3, 21)
      s10 == [s9 EXCEPT ![4] = XorBits(s9[4], s9[1])]         \* v3 ^= v0
      s11 == [s10 EXCEPT ![3] = AddMod(s10[3], s10[2])]       \* v2 += v1
      s12 == [s11 EXCEPT ![2] = RotateLeft(s11[2], 17)]       \* v1 = rotl(v1, 17)
      s13 == [s12 EXCEPT ![2] = XorBits(s12[2], s12[3])]      \* v1 ^= v2
  IN [s13 EXCEPT ![3] = RotateLeft(s13[3], 32)]               \* v2 = rotl(v2, 32)

LanesToBits(l) == << ToBits(l[1]), ToBits(l[2]), ToBits(l[3]), ToBits(l[4]) >>

LanesFromBits(l) ==
  << FromBits(l[1]), FromBits(l[2]), FromBits(l[3]), FromBits(l[4]) >>

\* v3 ^= block, two rounds, v0 ^= block, on lanes as bits
ArxAbsorb(l, block) ==
  Let([l EXCEPT ![4] = XorBits(l[4], block)], LAMBDA l1 :
  Let(ArxRound(l1), LAMBDA l2 :
  Let(ArxRound(l2), LAMBDA l3 :
  [l3 EXCEPT ![1] = XorBits(l3[1], block)])))

\* the lanes l after the words from, from + 1, ..., to - 1 of B
RECURSIVE ArxAbsorbWords(_, _, _, _)
ArxAbsorbWords(l, B, from, to) ==
  IF from >= to THEN l
  ELSE Let(ArxAbsorb(l, ToBits(WordLE(B, from))), LAMBDA l1 :
           ArxAbsorbWords(l1, B, from + 1, to))

\* lanes at the edges of the arithmetic: carries that run through all the
\* bits and out of bit 63, and single bits that the rotations take around
EdgeWords ==
  { Zero64, FromByte(1), U64(\Hffff, \Hffff, \Hffff, \Hffff),
    U64(\H8000, 0, 0, 0), U64(\H7fff, \Hffff, \Hffff, \Hffff) }

EdgeLanes ==
  { << a, b, a, b >> : a, b \in EdgeWords }
  \cup { << a, a, b, b >> : a, b \in EdgeWords }

WithLanes(l) == [NoContext EXCEPT !.v0 = l[1], !.v1 = l[2], !.v2 = l[3], !.v3 = l[4]]

\* C17: the compression round is the ARX sequence, with every addition
\* modulo 2^64 and every rotl a rotation of 64 bits: on the lanes of every
\* live engine and on the lanes EdgeLanes, compress! gives what the
\* sequence written on bits gives.  And every call absorbs each full block
\* it completes as v3 ^= block, two such rounds, v0 ^= block.
C17_CompressIsArx ==
  /\ [](\A e \in Engines :
          /\ st[e] = "live" =>
               Lanes(compress(ctx[e]))
                 = LanesFromBits(ArxRound(LanesToBits(Lanes(ctx[e]))))
          /\ (st[e] = "none" /\ e \in Solo) =>
               \A l \in EdgeLanes :
                 Lanes(compress(WithLanes(l)))
                   = LanesFromBits(ArxRound(LanesToBits(l))))
  /\ [][\A e \in Engines :
          CallOn(e) =>
            /\ st'[e] = "live"
            /\ Lanes(ctx'[e])
                 = LanesFromBits(
                     ArxAbsorbWords(LanesToBits(Lanes(ctx[e])), fed'[e],
                                    Len(fed[e]) \div 8, Len(fed'[e]) \div 8))]_vars

\* two blocks of the stream 255, 254, ... were absorbed in two calls
C17_Witness ==
  /\ st[1] = "live" /\ calls[1] = 2 /\ stream[1] = "high"
  /\ Len(fed[1]) = 16 /\ ctx[1].ntail = 0
  /\ Lanes(ctx[1]) # Lanes(SipInit(k0, k1))

\* C18: an update with the empty byte sequence does nothing.  A call that
\* passes no bytes, on an engine with ntail = 0 or with ntail > 0, returns
\* and leaves v0, v1, v2, v3, tail, ntail and length as they were.
C18_EmptyUpdate ==
  [][\A e \in Engines :
       (CallOn(e) /\ Passed(e) = << >>) =>
         /\ st'[e] = "live"
         /\ Lanes(ctx'[e]) = Lanes(ctx[e])
         /\ ctx'[e].tail = ctx[e].tail
         /\ ctx'[e].ntail = ctx[e].ntail
         /\ ctx'[e].length = ctx[e].length]_vars

\* of three calls two were empty, and one byte is pending
C18_Witness ==
  /\ st[1] = "live" /\ calls[1] = 3 /\ Len(fed[1]) = 1
  /\ ctx[1].ntail = 1 /\ ctx[1].length = 1 /\ ctx[1].tail[1] = fed[1][1]

====
